---- MODULE Spec2Model ----
(***************************************************************************)
(* Vision-guided control of a two-link SCARA arm: the inverse-kinematics   *)
(* solver (scara_arm.find_angles), the joint actuation (scara_arm.joint),  *)
(* the perception pipeline (scara_imaging.ScaraImage, find_target) and the *)
(* tracking loop (scara.auto_operation) with its callers in the main menu. *)
(*                                                                         *)
(* Units.  Lengths and physical coordinates are integers in hundredths of  *)
(* an inch (find_target rounds to two decimals).  Angles are integers in   *)
(* degrees: math.cos / math.sin are a table of cos(k deg) * 10000, and     *)
(* math.acos / math.atan2 return the whole degree nearest the real value.  *)
(* A Python value that may be None is None (the empty tuple) or <<v>>.     *)
(*                                                                         *)
(* Control.  pc walks the statements of auto_operation one at a time, so   *)
(* that ctrl-C (KeyboardInterrupt) and device errors can arrive between    *)
(* any two of them and are routed to the except clause that encloses the   *)
(* statement.  ctrl-C is delivered while the loop body runs; the servo     *)
(* driver behind joint.servo refuses angles outside 0..180 with ValueError *)
(* (the error the code's except clauses expect); the camera and the servo  *)
(* bus may fail with a device error at any call.  An exception nothing     *)
(* catches ends the program ("crashed"); the servos keep what they hold.   *)
(* Of the menu, the modes 'auto', 'cam'/'targ' and 'cam'/'cal' are         *)
(* modelled.  A float that is not a number (inf, nan) is one of two        *)
(* integers set apart for it, and the operations the code applies to a     *)
(* coordinate treat it as Python does.                                     *)
(***************************************************************************)
EXTENDS Integers, Sequences, FiniteSets, TLC

None == << >>
Some(v) == << v >>
Val(o) == o[1]

Abs(n) == IF n < 0 THEN -n ELSE n

\* The floats that are not numbers of hundredths: numpy's inf (-inf is -Inf)
\* and nan, as two integers far beyond any coordinate
Inf == 10000000

NaN == 20000000

\* math.isfinite
Finite(v) == v # Inf /\ v # -Inf /\ v # NaN

\* ------------------------------------------------------------------------
\* math: trigonometry in degrees, values scaled by 10000
\* ------------------------------------------------------------------------

CosT ==
    << 10000, 9998, 9994, 9986, 9976, 9962, 9945, 9925, 9903, 9877,
       9848, 9816, 9781, 9744, 9703, 9659, 9613, 9563, 9511, 9455,
       9397, 9336, 9272, 9205, 9135, 9063, 8988, 8910, 8829, 8746,
       8660, 8572, 8480, 8387, 8290, 8192, 8090, 7986, 7880, 7771,
       7660, 7547, 7431, 7314, 7193, 7071, 6947, 6820, 6691, 6561,
       6428, 6293, 6157, 6018, 5878, 5736, 5592, 5446, 5299, 5150,
       5000, 4848, 4695, 4540, 4384, 4226, 4067, 3907, 3746, 3584,
       3420, 3256, 3090, 2924, 2756, 2588, 2419, 2250, 2079, 1908,
       1736, 1564, 1392, 1219, 1045, 872, 698, 523, 349, 175,
       0 >>

\* math.cos of an angle in whole degrees
Cos(deg) ==
    LET t == deg % 360
    IN  IF t <= 90 THEN CosT[t + 1]
        ELSE IF t <= 180 THEN -CosT[180 - t + 1]
        ELSE IF t <= 270 THEN -CosT[t - 180 + 1]
        ELSE CosT[360 - t + 1]

\* math.sin of an angle in whole degrees
Sin(deg) == Cos(deg - 90)

\* math.acos(num/den) in degrees, for den > 0 and -den <= num <= den: the
\* number of half-degree marks k - 1/2 (k = 1..180) whose cosine is above
\* num/den, i.e. the angle rounded to the nearest degree.  den is a multiple
\* of 100 (link lengths are whole tenths of an inch); both sides of
\* cos * den > 10000 * num are divided by 100 to stay within 32 bits.
Acos(num, den) ==
    Cardinality({k \in 1..180 :
        (Cos(k) + Cos(k - 1)) * (den \div 100) > 2 * 100 * num})

\* math.atan2(yy, xx) in degrees for yy >= 0: the number of half-degree
\* directions k - 1/2 (k = 1..180) that lie clockwise of (xx, yy).
Atan2Upper(yy, xx) ==
    Cardinality({k \in 1..180 :
        (Cos(k) + Cos(k - 1)) * yy - (Sin(k) + Sin(k - 1)) * xx > 0})

\* n / d truncated toward zero
Trunc(n, d) == IF n < 0 THEN -((-n) \div d) ELSE n \div d

\* math.atan2(yy, xx) in degrees, in -180..180; atan2(0, 0) = 0 as in Python.
\* Arguments above 30000 are scaled down together (the direction is kept to
\* better than 1/100 degree) so that the products stay within 32 bits.
Atan2(yy, xx) ==
    LET m == IF Abs(yy) > Abs(xx) THEN Abs(yy) ELSE Abs(xx)
        f == m \div 30000 + 1
        ys == Trunc(yy, f)
        xs == Trunc(xx, f)
    IN  IF ys >= 0 THEN Atan2Upper(ys, xs) ELSE -Atan2Upper(-ys, xs)

\* ------------------------------------------------------------------------
\* scara_arm.find_angles
\* ------------------------------------------------------------------------

\* scara.py: arm_lengths = (6.0, 4.5), in hundredths of an inch
arm_lengths == << 600, 450 >>

\* numerator and denominator of the acos argument (x**2+y**2-a**2-b**2)/(2*a*b)
AcosNum(xx, yy, lengths) ==
    xx * xx + yy * yy - lengths[1] * lengths[1] - lengths[2] * lengths[2]

AcosDen(lengths) == 2 * lengths[1] * lengths[2]

\* find_angles as it would be if the limits of reach were refused too
FindAnglesRaisesAtLimit(xx, yy, lengths) ==
    \/ AcosNum(xx, yy, lengths) >= AcosDen(lengths)
    \/ AcosNum(xx, yy, lengths) <= -AcosDen(lengths)

\* find_angles raises ValueError: math.acos raises it (math domain error)
\* when its argument is outside [-1, 1]; an infinite coordinate makes the
\* argument inf.  (nan never comes this far: every comparison of the
\* threshold test is False for it.)
FindAnglesRaises(xx, yy, lengths) ==
    \/ Abs(xx) = Inf \/ Abs(yy) = Inf
    \/ AcosNum(xx, yy, lengths) > AcosDen(lengths)
    \/ AcosNum(xx, yy, lengths) < -AcosDen(lengths)

\* shoulder angle of the solution with elbow angle e:
\* atan2(y, x) - atan2(b*sin(e), a + b*cos(e))
ShoulderFor(xx, yy, lengths, e) ==
    Atan2(yy, xx)
      - Atan2(lengths[2] * Sin(e), lengths[1] * 10000 + lengths[2] * Cos(e))

\* the list [[shoulder1, elbow1], [shoulder2, elbow2]] find_angles returns
\* when it does not raise: solution set 1 has the negative elbow angle
find_angles(xx, yy, lengths) ==
    LET c  == Acos(AcosNum(xx, yy, lengths), AcosDen(lengths))
        e1 == -c
        e2 == c
    IN  << << ShoulderFor(xx, yy, lengths, e1), e1 >>,
           << ShoulderFor(xx, yy, lengths, e2), e2 >> >>

\* ------------------------------------------------------------------------
\* scara_arm.joint
\* ------------------------------------------------------------------------

\* joint.__init__: the fields set_angle reads
joint(joint_range, servo_range, flipped) ==
    [ joint_min |-> 0 - joint_range \div 2,
      joint_max |-> 0 + joint_range \div 2,
      servo_min |-> IF flipped THEN 90 + servo_range \div 2
                               ELSE 90 - servo_range \div 2,
      servo_max |-> IF flipped THEN 90 - servo_range \div 2
                               ELSE 90 + servo_range \div 2 ]

\* arm_init: shoulder = joint(kit, 'shoulder', 0, 180, 180, ..., flipped=True)
shoulder == joint(180, 180, TRUE)

\* arm_init: elbow = joint(kit, 'elbow', 15, 316, 158, ...)
elbow == joint(316, 158, FALSE)

\* joint.set_angle, angle not None: numerator and denominator of
\* servo_angle = angle*(servo_max - servo_min)/(joint_max - joint_min) + 90
ServoAngleDen(j) == j.joint_max - j.joint_min

ServoAngleNum(j, angle) ==
    angle * (j.servo_max - j.servo_min) + 90 * ServoAngleDen(j)

\* joint.set_angle: `self.servo.angle = servo_angle` raises ValueError when
\* servo_angle is outside the servo's actuation range 0..180 degrees
SetAngleRaises(j, angle) ==
    \/ ServoAngleNum(j, angle) < 0
    \/ ServoAngleNum(j, angle) > 180 * ServoAngleDen(j)

\* ------------------------------------------------------------------------
\* scara_imaging.ScaraImage
\* ------------------------------------------------------------------------
\* A frame is the list of contours cv.findContours returns for its mask, in
\* the order returned.  A contour is a record of what the code reads of it:
\*   size          array.size, twice the number of stored contour points
\*   w, h          the bounding box of cv.boundingRect
\*   m00, m10, m01 the moments of cv.moments (m00 is the enclosed area)

\* the test as it would be if a width of 19 px were enough
QualifiesFrom19(contour) ==
    Abs(contour.w - contour.h) <= 3 /\ contour.w >= 19

\* ScaraImage.find_target: `abs(w - h) <= 3 and w > 19`
Qualifies(contour) == Abs(contour.w - contour.h) <= 3 /\ contour.w > 19

\* list.sort(reverse=True, key=arraysize) is stable: index i is placed after
\* every index already in `order` whose contour is at least as large
RECURSIVE InsertBySize(_, _, _)
InsertBySize(contours, order, i) ==
    IF order = << >> THEN << i >>
    ELSE IF contours[Head(order)].size >= contours[i].size
         THEN << Head(order) >> \o InsertBySize(contours, Tail(order), i)
         ELSE << i >> \o order

\* the indices 1..n of `contours` in the order contours.sort leaves them
RECURSIVE SortBySize(_, _)
SortBySize(contours, n) ==
    IF n = 0 THEN << >>
    ELSE InsertBySize(contours, SortBySize(contours, n - 1), n)

\* the loop `for contour in contours: ... target = contour; break`:
\* the index of the first qualifying contour in `order`, 0 for target = None
RECURSIVE FirstQualifying(_, _)
FirstQualifying(contours, order) ==
    IF order = << >> THEN 0
    ELSE IF Qualifies(contours[Head(order)]) THEN Head(order)
         ELSE FirstQualifying(contours, Tail(order))

\* the contour ScaraImage.find_target takes as target (its index, 0 if none)
SelectTarget(contours) ==
    FirstQualifying(contours, SortBySize(contours, Len(contours)))

\* ScaraImage.find_target: (self.cx, self.cy), or ZeroDivisionError raised by
\* moments['m10']/moments['m00'] when the target's m00 is 0
ScaraImage_find_target(contours) ==
    LET t == SelectTarget(contours)
    IN  IF t = 0 THEN [raises |-> FALSE, cx |-> None, cy |-> None]
        ELSE IF contours[t].m00 = 0
             THEN [raises |-> TRUE, cx |-> None, cy |-> None]
             ELSE [raises |-> FALSE,
                   cx |-> Some(contours[t].m10 \div contours[t].m00),
                   cy |-> Some(contours[t].m01 \div contours[t].m00)]

\* ScaraImage.warp for a centroid that is not None: the numerators and the
\* denominator of (cx_corrected, cy_corrected).  The matrix is a numpy array,
\* so x_num/denom with denom = 0 raises nothing: see DivByZero.
warp(cx, cy, matrix) ==
    [ x_num |-> matrix[1][1] * cx + matrix[1][2] * cy + matrix[1][3],
      y_num |-> matrix[2][1] * cx + matrix[2][2] * cy + matrix[2][3],
      denom |-> matrix[3][1] * cx + matrix[3][2] * cy + matrix[3][3] ]

\* p / q rounded to the nearest integer, q # 0 (no frame of the model lands
\* on an exact half)
RoundDiv(p, q) ==
    IF q > 0 THEN (2 * p + q) \div (2 * q) ELSE (-2 * p - q) \div (-2 * q)

\* numpy's num / 0.0: inf with the sign of num, nan for 0.0 / 0.0 (a
\* RuntimeWarning is printed, no exception raised)
DivByZero(num) == IF num > 0 THEN Inf ELSE IF num < 0 THEN -Inf ELSE NaN

\* 11.5 - v * c for a positive c and a v that is not finite; round(., 2)
\* leaves the result as it is
OffsetMinus(v) == IF v = NaN THEN NaN ELSE -v

\* ScaraImage.get_real_coords followed by find_target's round(., 2), in
\* hundredths of an inch:
\*   target_x = 11.5 - cy_corrected * 12/334
\*   target_y = 11.5 - cx_corrected * 23/640
get_real_coords(warped) ==
    IF warped.denom = 0
    THEN [ target_x |-> OffsetMinus(DivByZero(warped.y_num)),
           target_y |-> OffsetMinus(DivByZero(warped.x_num)) ]
    ELSE [ target_x |->
               RoundDiv(1150 * 334 * warped.denom - warped.y_num * 1200,
                        334 * warped.denom),
           target_y |->
               RoundDiv(1150 * 640 * warped.denom - warped.x_num * 2300,
                        640 * warped.denom) ]

\* scara_imaging.find_target(camera, warp_matrix, target_color, maps) on a
\* captured frame: (x, y), (None, None), or the ZeroDivisionError that
\* ScaraImage.find_target raised
find_target(contours, matrix) ==
    LET img == ScaraImage_find_target(contours)
    IN  IF img.raises THEN [raises |-> TRUE, x |-> None, y |-> None]
        ELSE IF img.cx = None THEN [raises |-> FALSE, x |-> None, y |-> None]
        ELSE LET real == get_real_coords(warp(Val(img.cx), Val(img.cy), matrix))
             IN  [raises |-> FALSE,
                  x |-> Some(real.target_x), y |-> Some(real.target_y)]

\* ------------------------------------------------------------------------
\* The scenes put before the camera
\* ------------------------------------------------------------------------

\* a blob of `area` pixels around the pixel (cx, cy)
Blob(size, w, h, area, cx, cy) ==
    [size |-> size, w |-> w, h |-> h,
     m00 |-> area, m10 |-> cx * area + area \div 2, m01 |-> cy * area]

\* a one-pixel-wide hairline, whose contour runs out and back over the same
\* pixels: a square bounding box, no enclosed area
Hairline(size, w) ==
    [size |-> size, w |-> w, h |-> w, m00 |-> 0, m10 |-> 0, m01 |-> 0]

Disk(cx, cy) == Blob(60, 30, 30, 700, cx, cy)

Noise == Blob(20, 5, 40, 200, 500, 400)

Frames ==
    { << >>,                               \* nothing of the target colour
      << Noise >>,                         \* a 5x40 blob only
      << Disk(292, 97) >>,                 \* target near (8.0, 1.0)
      << Disk(293, 90) >>,                 \* moved in x only
      << Noise, Disk(70, 404) >>,          \* target near (-3.0, 9.0)
      << Disk(153, 264) >>,                \* target near (2.0, 6.0)
      << Disk(306, 267) >>,                \* target near (1.9, 0.5)
      << Disk(401, 153) >>,                \* target near (6.0, -2.9)
      << Disk(20, 30) >>,                  \* beyond the arm's reach
      << Disk(306, 445) >>,                \* target near (-4.5, 0.5)
      << Hairline(80, 24), Disk(292, 97) >>, \* a hairline outranks the disk
      << Disk(128, 100) >>,                \* on the line SkewedWarpMatrix
      << Disk(128, 50) >>                  \*   sends to infinity
    }

\* ------------------------------------------------------------------------
\* scara.py: the main menu, target_finding and auto_operation
\* ------------------------------------------------------------------------

VARIABLES
    pc,            \* where the program is: the menu, a statement of
                   \* auto_operation or target_finding, or "crashed"
    warp_matrix,   \* the main program's warp_matrix
    x, y,          \* auto_operation / target_finding: the last (x, y)
    x0, y0,        \* auto_operation: the last accepted observation
    angles,        \* auto_operation: the local `angles` (None while unbound)
    angles0,       \* auto_operation: the last pair recorded as commanded
    servo,         \* the joint angle each servo holds, None when depowered
    obs,           \* what the perception call of this cycle did
    cmds,          \* the set_angle calls made since this cycle began:
                   \* << joint, angle, "ok" or "ValueError" >>
    interrupted,   \* a KeyboardInterrupt was raised in this tracking session
    device_error,  \* a device error was raised in this tracking session
    exc,           \* the exception that ended the program, "none" if none
    printed,       \* 'Error. Ensure coordinate is reachable.' was printed
                   \* in this cycle
    call           \* a function applied on its own: its arguments and what
                   \* it did; None while the program runs

vars == << pc, warp_matrix, x, y, x0, y0, angles, angles0, servo, obs, cmds,
           interrupted, device_error, exc, printed, call >>

locals == << x, y, x0, y0, angles, angles0 >>

\* config['Image warp matrix'] as loaded at startup: the camera looking
\* straight down
LoadedWarpMatrix == << << 1, 0, 0 >>, << 0, 1, 0 >>, << 0, 0, 1 >> >>

\* config['Image warp matrix'] as loaded at startup: a perspective transform
\* saved by an earlier calibration, [[1, 0, 0], [0, 1, -50], [-1/128, 0, 1]]
\* times 128 (a common factor cancels in x_num/denom and y_num/denom); its
\* denominator is 0 for the pixels of the column cx = 128
SkewedWarpMatrix == << << 128, 0, 0 >>, << 0, 128, -6400 >>, << -1, 0, 128 >> >>

\* the matrices scara_config.txt may hold when the program starts
ConfigWarpMatrices == { LoadedWarpMatrix, SkewedWarpMatrix }

\* the program after start-up, at the main menu
Started ==
    /\ pc = "menu"
    /\ warp_matrix \in ConfigWarpMatrices
    /\ x = Some(0) /\ y = Some(0) /\ x0 = 0 /\ y0 = 0
    /\ angles = None /\ angles0 = << 0, 0 >>
    /\ servo = [shoulder |-> None, elbow |-> None]
    /\ obs = "pending" /\ cmds = << >>
    /\ interrupted = FALSE /\ device_error = FALSE
    /\ exc = "none"
    /\ printed = FALSE

Init == Started /\ call = None

\* main menu, mode 'auto': auto_operation is called; lines 207-211
MenuAuto ==
    /\ pc = "menu"
    /\ pc' = "sleep"
    /\ x' = Some(0) /\ y' = Some(0) /\ x0' = 0 /\ y0' = 0
    /\ angles' = None /\ angles0' = << 0, 0 >>
    /\ obs' = "pending" /\ cmds' = << >>
    /\ interrupted' = FALSE /\ device_error' = FALSE
    /\ printed' = FALSE
    /\ UNCHANGED << call, warp_matrix, servo, exc >>

\* sleep(0.2): a new cycle begins
Sleep ==
    /\ pc = "sleep"
    /\ pc' = "find_target"
    /\ obs' = "pending" /\ cmds' = << >> /\ printed' = FALSE
    /\ UNCHANGED << call, warp_matrix, locals, servo, interrupted, device_error,
                    exc >>

\* the outcome of a perception call that returned r: "present" for a pair
\* of numbers, "nonfinite" for a pair with inf or nan in it
Outcome(r) ==
    IF r.raises THEN "ZeroDivisionError"
    ELSE IF r.x = None THEN "absent"
    ELSE IF Finite(Val(r.x)) /\ Finite(Val(r.y)) THEN "present"
    ELSE "nonfinite"

\* try: x, y = imaging.find_target(...)  except ZeroDivisionError: pass
FindTarget ==
    /\ pc = "find_target"
    /\ \E frame \in Frames :
         LET r == find_target(frame, warp_matrix)
         IN  /\ obs' = Outcome(r)
             /\ x' = IF r.raises THEN x ELSE r.x
             /\ y' = IF r.raises THEN y ELSE r.y
    /\ pc' = "threshold"
    /\ UNCHANGED << call, warp_matrix, printed, x0, y0, angles, angles0,
                    servo, cmds, interrupted, device_error, exc >>

\* abs(v - v0) >= 0.1 in float arithmetic: False when v or v0 is nan and
\* when both are the same infinity (inf - inf is nan), True when one of
\* them only is infinite or they are opposite infinities
AbsDiffAtLeastTenth(v, v0) ==
    /\ v # NaN /\ v0 # NaN
    /\ ~(Abs(v) = Inf /\ v = v0)
    /\ Abs(v - v0) >= 10

\* the threshold as it would be if movement on one axis were enough
MovedEnoughEither(xx, yy, xx0, yy0) ==
    AbsDiffAtLeastTenth(xx, xx0) \/ AbsDiffAtLeastTenth(yy, yy0)

\* abs(x-x0) >= 0.1 and abs(y-y0) >= 0.1
MovedEnough(xx, yy, xx0, yy0) ==
    AbsDiffAtLeastTenth(xx, xx0) /\ AbsDiffAtLeastTenth(yy, yy0)

\* the test as it would be if a lost target reset the last accepted
\* observation
ThresholdAbsentResets ==
    /\ pc = "threshold"
    /\ IF x = None
       THEN /\ x0' = 0 /\ y0' = 0
            /\ pc' = "sleep"
       ELSE IF MovedEnough(Val(x), Val(y), x0, y0)
            THEN /\ x0' = Val(x) /\ y0' = Val(y)
                 /\ pc' = "find_angles"
            ELSE /\ UNCHANGED << x0, y0 >>
                 /\ pc' = "sleep"
    /\ UNCHANGED << call, warp_matrix, printed, x, y, angles, angles0, servo,
                    obs, cmds, interrupted, device_error, exc >>

\* if x is None: pass / elif ...: x0 = x; y0 = y
Threshold ==
    /\ pc = "threshold"
    /\ IF x # None /\ MovedEnough(Val(x), Val(y), x0, y0)
       THEN /\ x0' = Val(x) /\ y0' = Val(y)
            /\ pc' = "find_angles"
       ELSE /\ UNCHANGED << x0, y0 >>
            /\ pc' = "sleep"
    /\ UNCHANGED << call, warp_matrix, printed, x, y, angles, angles0, servo,
                    obs, cmds, interrupted, device_error, exc >>

\* the reordering as it would be if a tie swapped the solutions too
OrderSolutionsSwapOnTie(sols, last) ==
    IF Abs(sols[1][1] - last[1]) >= Abs(sols[2][1] - last[1])
    THEN << sols[2], sols[1] >>
    ELSE sols

\* if abs(angles[0][0]-angles0[0]) > abs(angles[1][0]-angles0[0]):
\*     angles[0], angles[1] = angles[1], angles[0]
OrderSolutions(sols, last) ==
    IF Abs(sols[1][1] - last[1]) > Abs(sols[2][1] - last[1])
    THEN << sols[2], sols[1] >>
    ELSE sols

\* angles = arm.find_angles(x, y, arm_lengths) and the reordering; a
\* ValueError leaves `angles` as it was and enters the except clause
FindAngles ==
    /\ pc = "find_angles"
    /\ IF FindAnglesRaises(Val(x), Val(y), arm_lengths)
       THEN /\ pc' = "shoulder2"
            /\ UNCHANGED angles
       ELSE /\ angles' = OrderSolutions(
                            find_angles(Val(x), Val(y), arm_lengths), angles0)
            /\ pc' = "shoulder1"
    /\ UNCHANGED << call, warp_matrix, printed, x, y, x0, y0, angles0, servo,
                    obs, cmds, interrupted, device_error, exc >>

\* name.set_angle(angle) with angle not None: the servo takes the angle and
\* control moves to `next`, or ValueError moves it to `handler`; the handler
\* that ends the cycle is the bare except, which prints the error message
SetAngle(name, j, angle, next, handler) ==
    /\ cmds' = Append(cmds, << name, Some(angle),
                              IF SetAngleRaises(j, angle) THEN "ValueError"
                                                          ELSE "ok" >>)
    /\ IF SetAngleRaises(j, angle)
       THEN /\ pc' = handler
            /\ UNCHANGED servo
       ELSE /\ pc' = next
            /\ servo' = [servo EXCEPT ![name] = Some(angle)]
    /\ printed' = (printed \/ (SetAngleRaises(j, angle) /\ handler = "sleep"))
    /\ UNCHANGED << call, warp_matrix, locals, obs, interrupted, device_error,
                    exc >>

\* shoulder.set_angle(angles[0][0])
SetShoulder1 ==
    /\ pc = "shoulder1"
    /\ SetAngle("shoulder", shoulder, angles[1][1], "elbow1", "shoulder2")

\* elbow.set_angle(angles[0][1])
SetElbow1 ==
    /\ pc = "elbow1"
    /\ SetAngle("elbow", elbow, angles[1][2], "commit1", "shoulder2")

\* angles0 = angles[0]
Commit1 ==
    /\ pc = "commit1"
    /\ angles0' = angles[1]
    /\ pc' = "sleep"
    /\ UNCHANGED << call, warp_matrix, printed, x, y, x0, y0, angles, servo,
                    obs, cmds, interrupted, device_error, exc >>

\* except ValueError: try: shoulder.set_angle(angles[1][0]); an unbound
\* `angles` raises UnboundLocalError, which the bare except takes like the
\* servo's ValueError: the message is printed and the cycle ends
SetShoulder2 ==
    /\ pc = "shoulder2"
    /\ IF angles = None
       THEN /\ pc' = "sleep"
            /\ printed' = TRUE
            /\ UNCHANGED << call, warp_matrix, locals, servo, obs, cmds,
                            interrupted, device_error, exc >>
       ELSE SetAngle("shoulder", shoulder, angles[2][1], "elbow2", "sleep")

\* elbow.set_angle(angles[1][1])
SetElbow2 ==
    /\ pc = "elbow2"
    /\ SetAngle("elbow", elbow, angles[2][2], "commit2", "sleep")

\* the fallback as it would be if it recorded the pair tried first
Commit2RecordsPreferred ==
    /\ pc = "commit2"
    /\ angles0' = angles[1]
    /\ pc' = "sleep"
    /\ UNCHANGED << call, warp_matrix, printed, x, y, x0, y0, angles, servo,
                    obs, cmds, interrupted, device_error, exc >>

\* angles0 = angles[1]
Commit2 ==
    /\ pc = "commit2"
    /\ angles0' = angles[2]
    /\ pc' = "sleep"
    /\ UNCHANGED << call, warp_matrix, printed, x, y, x0, y0, angles, servo,
                    obs, cmds, interrupted, device_error, exc >>

\* the statements of auto_operation's loop body
InCycle ==
    pc \in { "sleep", "find_target", "threshold", "find_angles",
             "shoulder1", "elbow1", "commit1",
             "shoulder2", "elbow2", "commit2" }

\* the statements inside
\* `try: ... except: print('Error. Ensure coordinate is reachable.')`
InBareExcept == pc \in { "shoulder2", "elbow2", "commit2" }

\* ctrl-C while the loop body runs: KeyboardInterrupt is raised at the
\* current statement.  The bare except of the fallback takes it like any
\* other exception; elsewhere `except KeyboardInterrupt` takes it.
Interrupt ==
    /\ InCycle
    /\ interrupted' = TRUE
    /\ pc' = IF InBareExcept THEN "sleep" ELSE "depower_shoulder"
    /\ printed' = (printed \/ InBareExcept)
    /\ UNCHANGED << call, warp_matrix, locals, servo, obs, cmds, device_error,
                    exc >>

\* except KeyboardInterrupt: shoulder.set_angle(None)
DepowerShoulder ==
    /\ pc = "depower_shoulder"
    /\ servo' = [servo EXCEPT !.shoulder = None]
    /\ cmds' = Append(cmds, << "shoulder", None, "ok" >>)
    /\ pc' = "depower_elbow"
    /\ UNCHANGED << call, warp_matrix, printed, locals, obs, interrupted,
                    device_error, exc >>

\* elbow.set_angle(None); return (the locals of auto_operation are gone)
DepowerElbow ==
    /\ pc = "depower_elbow"
    /\ servo' = [servo EXCEPT !.elbow = None]
    /\ cmds' = Append(cmds, << "elbow", None, "ok" >>)
    /\ pc' = "menu"
    /\ x' = Some(0) /\ y' = Some(0) /\ x0' = 0 /\ y0' = 0
    /\ angles' = None /\ angles0' = << 0, 0 >>
    /\ UNCHANGED << call, warp_matrix, printed, obs, interrupted,
                    device_error, exc >>

\* camera.capture raises a device error in ScaraImage.__init__: neither
\* `except ZeroDivisionError` nor `except KeyboardInterrupt` takes it, and
\* the main loop has no handler
CaptureFails ==
    /\ pc = "find_target"
    /\ device_error' = TRUE
    /\ pc' = "crashed"
    /\ exc' = "DeviceError"
    /\ UNCHANGED << call, warp_matrix, printed, locals, servo, obs, cmds,
                    interrupted >>

\* a set_angle call raises a device error (not a ValueError): the bare
\* except of the fallback takes it; anywhere else nothing does
ActuationFails ==
    /\ pc \in { "shoulder1", "elbow1", "shoulder2", "elbow2",
                "depower_shoulder", "depower_elbow" }
    /\ pc \in { "shoulder2", "elbow2" } => angles # None
    /\ device_error' = TRUE
    /\ IF InBareExcept
       THEN /\ pc' = "sleep"
            /\ UNCHANGED exc
       ELSE /\ pc' = "crashed"
            /\ exc' = "DeviceError"
    /\ printed' = (printed \/ InBareExcept)
    /\ UNCHANGED << call, warp_matrix, locals, servo, obs, cmds, interrupted >>

\* camera menu, mode 'targ': target_finding is called
MenuTarg ==
    /\ pc = "menu"
    /\ pc' = "target_finding"
    /\ obs' = "pending"
    /\ UNCHANGED << call, warp_matrix, printed, locals, servo, cmds,
                    interrupted, device_error, exc >>

\* target_finding, enter pressed: x, y = imaging.find_target(...); nothing
\* takes the ZeroDivisionError
TargetFindingLocate ==
    /\ pc = "target_finding"
    /\ \E frame \in Frames :
         LET r == find_target(frame, warp_matrix)
         IN  /\ obs' = Outcome(r)
             /\ x' = IF r.raises THEN x ELSE r.x
             /\ y' = IF r.raises THEN y ELSE r.y
             /\ pc' = IF r.raises THEN "crashed" ELSE "target_finding"
             /\ exc' = IF r.raises THEN "ZeroDivisionError" ELSE exc
    /\ UNCHANGED << call, warp_matrix, printed, x0, y0, angles, angles0,
                    servo, cmds, interrupted, device_error >>

\* target_finding, anything else entered: return
TargetFindingExit ==
    /\ pc = "target_finding"
    /\ pc' = "menu"
    /\ x' = Some(0) /\ y' = Some(0)
    /\ obs' = "pending"
    /\ UNCHANGED << call, warp_matrix, printed, x0, y0, angles, angles0,
                    servo, cmds, interrupted, device_error, exc >>

\* def calibrate_camera(camera, target_color, maps): three parameters
CalibrateCameraParams == 3

\* imaging.calibrate_camera(camera, target_color, maps, shoulder, elbow):
\* five arguments
CalibrateCameraArgs == 5

\* what calibrate_camera returns once cv.getPerspectiveTransform has given
\* `matrix`: the matrix when enter is pressed at the save prompt, and None
\* (the function ends without a return statement) when 'x' is typed
calibrate_camera(matrix, is_save) ==
    IF is_save = "" THEN Some(matrix) ELSE None

\* camera menu, mode 'cal': warp_matrix = imaging.calibrate_camera(...).
\* The call passes more arguments than the function has parameters, so
\* Python raises TypeError before the function's first statement, and
\* nothing catches it.  Were the numbers equal, warp_matrix would become
\* whatever the function returns.
MenuCal ==
    /\ pc = "menu"
    /\ IF CalibrateCameraArgs # CalibrateCameraParams
       THEN /\ pc' = "crashed"
            /\ exc' = "TypeError"
            /\ UNCHANGED warp_matrix
       ELSE /\ \E matrix \in ConfigWarpMatrices, is_save \in { "", "x" } :
                 LET ret == calibrate_camera(matrix, is_save)
                 IN  warp_matrix' = IF ret = None THEN None ELSE Val(ret)
            /\ pc' = "menu"
            /\ UNCHANGED exc
    /\ UNCHANGED << call, printed, locals, servo, obs, cmds, interrupted,
                    device_error >>

Next ==
    \/ MenuAuto
    \/ Sleep
    \/ FindTarget
    \/ Threshold
    \/ FindAngles
    \/ SetShoulder1
    \/ SetElbow1
    \/ Commit1
    \/ SetShoulder2
    \/ SetElbow2
    \/ Commit2
    \/ Interrupt
    \/ DepowerShoulder
    \/ DepowerElbow
    \/ CaptureFails
    \/ ActuationFails
    \/ MenuTarg
    \/ TargetFindingLocate
    \/ TargetFindingExit
    \/ MenuCal

Spec == Init /\ [][Next]_vars

\* ------------------------------------------------------------------------
\* find_angles applied on its own to a grid of coordinates
\* ------------------------------------------------------------------------

\* coordinates -GridMax..GridMax in steps of 0.3 inch
GridMax == 36

Grid == { 30 * k : k \in -GridMax..GridMax }

\* link lengths (a, b): the program's, a shorter upper arm, equal links
LinkLengths == { arm_lengths, << 450, 600 >>, << 300, 300 >> }

InitIK ==
    /\ Started
    /\ call \in [ fn : { "find_angles" }, x : Grid, y : Grid,
                  lengths : LinkLengths, done : { FALSE },
                  raises : { FALSE }, ret : { None } ]

\* output = find_angles(x, y, arm_lengths), or the ValueError it raises
ApplyFindAngles ==
    /\ call # None /\ call.fn = "find_angles" /\ ~call.done
    /\ call' = IF FindAnglesRaises(call.x, call.y, call.lengths)
               THEN [call EXCEPT !.done = TRUE, !.raises = TRUE]
               ELSE [call EXCEPT !.done = TRUE,
                         !.ret = find_angles(call.x, call.y, call.lengths)]
    /\ UNCHANGED << pc, warp_matrix, printed, locals, servo, obs, cmds,
                    interrupted, device_error, exc >>

NextIK == ApplyFindAngles

SpecIK == InitIK /\ [][NextIK]_vars

\* ------------------------------------------------------------------------
\* ScaraImage.find_target applied on its own to lists of contours
\* ------------------------------------------------------------------------

\* the longest contour list tried
MaxContours == 2

\* contours of few or many points, of several bounding boxes, of no, small
\* or large enclosed area, all around the pixel (100, 50)
Contours ==
    { [size |-> s, w |-> box[1], h |-> box[2],
       m00 |-> area, m10 |-> 100 * area, m01 |-> 50 * area] :
        s \in { 8, 60 },
        box \in { << 30, 30 >>, << 5, 40 >>, << 19, 19 >>, << 20, 23 >>,
                  << 20, 24 >> },
        area \in { 0, 400, 900 } }

ContourLists == UNION { [1..n -> Contours] : n \in 0..MaxContours }

InitSelect ==
    /\ Started
    /\ call \in [ fn : { "ScaraImage.find_target" }, contours : ContourLists,
                  done : { FALSE }, target : { 0 }, raises : { FALSE },
                  ret : { << None, None >> } ]

\* img.find_target(target_color): the contour taken as target, and the
\* (cx, cy) returned or the ZeroDivisionError raised
ApplySelect ==
    /\ call # None /\ call.fn = "ScaraImage.find_target" /\ ~call.done
    /\ LET r == ScaraImage_find_target(call.contours)
       IN  call' = [call EXCEPT !.done = TRUE,
                        !.target = SelectTarget(call.contours),
                        !.raises = r.raises,
                        !.ret = << r.cx, r.cy >>]
    /\ UNCHANGED << pc, warp_matrix, printed, locals, servo, obs, cmds,
                    interrupted, device_error, exc >>

NextSelect == ApplySelect

SpecSelect == InitSelect /\ [][NextSelect]_vars

\* ------------------------------------------------------------------------
\* Properties of the tracking loop
\* ------------------------------------------------------------------------

InHandler == pc \in { "depower_shoulder", "depower_elbow" }

Depowered == servo.shoulder = None /\ servo.elbow = None

\* the last two set_angle calls are shoulder.set_angle(None), elbow.set_angle(None)
DepowerIssuedLast ==
    /\ Len(cmds) >= 2
    /\ cmds[Len(cmds) - 1] = << "shoulder", None, "ok" >>
    /\ cmds[Len(cmds)] = << "elbow", None, "ok" >>

\* C1: once a KeyboardInterrupt has been raised in a tracking session (and no
\* device error has), the loop body is no longer running: control is in the
\* handler or has left auto_operation, and when it has left, both joints
\* were depowered by the last two set_angle calls.
C1_CancellationAlwaysDepowers ==
    (interrupted /\ ~device_error) =>
        /\ ~InCycle
        /\ ~InHandler => (Depowered /\ DepowerIssuedLast)

\* C2: in a cycle whose accepted observation (x0, y0) = (x, y) is a
\* coordinate find_angles fails on, no servo takes a set_angle call with an
\* angle other than None: the arm stays at its last commanded pose.
C2_UnreachableMeansNoMovement ==
    (/\ InCycle \/ InHandler
     /\ x # None
     /\ Val(x) = x0 /\ Val(y) = y0
     /\ FindAnglesRaises(x0, y0, arm_lengths))
        => \A i \in 1..Len(cmds) : cmds[i][3] = "ok" => cmds[i][2] = None

\* C3: from the test of an absent observation the loop goes to the next
\* cycle's pause (or to the handler, when interrupted), without a set_angle
\* call in the cycle and with x0, y0, angles0 and the servos as they were.
C3_AbsentIsNoOp ==
    [][(pc = "threshold" /\ obs = "absent") =>
          /\ x = None
          /\ pc' = "sleep" \/ (pc' = "depower_shoulder" /\ interrupted')
          /\ cmds = << >> /\ cmds' = << >>
          /\ UNCHANGED << x0, y0, angles0, servo >>]_vars

\* C3 witness: an absent observation was passed over with the arm powered
C3_Witness ==
    /\ pc = "sleep" /\ obs = "absent" /\ cmds = << >>
    /\ servo.shoulder # None /\ servo.elbow # None
    /\ angles0 # << 0, 0 >>

Preferred(sols, last) ==
    IF Abs(sols[1][1] - last) <= Abs(sols[2][1] - last)
    THEN sols[1] ELSE sols[2]

\* C5: when find_angles has returned two solutions, the pair about to be
\* commanded first, and then the first set_angle call of the cycle, is the
\* solution whose shoulder angle is nearer angles0[0]; on a tie, the first
\* returned.
C5_ContinuityPolicy ==
    LET sols == find_angles(Val(x), Val(y), arm_lengths)
        pref == Preferred(sols, angles0[1])
    IN  /\ pc = "shoulder1" => angles[1] = pref /\ angles \in { sols, << sols[2], sols[1] >> }
        /\ pc \in { "elbow1", "commit1" } =>
               /\ cmds[1] = << "shoulder", Some(pref[1]), "ok" >>
               /\ servo.shoulder = Some(pref[1])

\* C5 witness: the two shoulder angles are equally far from angles0[0], which
\* an earlier cycle set, and the negative-elbow solution is about to be tried
C5_Witness ==
    /\ pc = "shoulder1"
    /\ angles0 # << 0, 0 >>
    /\ Abs(angles[1][1] - angles0[1]) = Abs(angles[2][1] - angles0[1])
    /\ angles[1][1] # angles[2][1]
    /\ angles[1][2] < 0

\* C7: a perception call never ends in ZeroDivisionError, neither in the
\* tracking loop nor in target-finding mode.
C7_DegenerateTargetIsAbsent ==
    obs # "ZeroDivisionError" /\ exc # "ZeroDivisionError"

\* C8: once a device error has been raised in a tracking session, the loop
\* body is no longer running, and when control has left auto_operation both
\* joints are depowered.
C8_DeviceErrorsStillDepower ==
    device_error =>
        /\ ~InCycle
        /\ ~InHandler => Depowered

\* C9: the angle a servo holds is within its joint's mechanical range.
C9_MechanicalRange ==
    /\ servo.shoulder # None =>
           /\ shoulder.joint_min <= Val(servo.shoulder)
           /\ Val(servo.shoulder) <= shoulder.joint_max
    /\ servo.elbow # None =>
           /\ elbow.joint_min <= Val(servo.elbow)
           /\ Val(servo.elbow) <= elbow.joint_max

\* ------------------------------------------------------------------------
\* Properties of find_angles and of ScaraImage.find_target
\* ------------------------------------------------------------------------

IKDone == call # None /\ call.fn = "find_angles" /\ call.done

\* x^2 + y^2 of the call
IKDist2 == call.x * call.x + call.y * call.y

\* (a + b)^2 and (a - b)^2 of the call
IKOuter2 ==
    (call.lengths[1] + call.lengths[2]) * (call.lengths[1] + call.lengths[2])

IKInner2 ==
    (call.lengths[1] - call.lengths[2]) * (call.lengths[1] - call.lengths[2])

\* C6: find_angles raises ValueError, with no result, exactly when
\* x^2+y^2 > (a+b)^2 or x^2+y^2 < (a-b)^2; otherwise it returns two pairs,
\* the first with the non-positive elbow angle and the second with its
\* negative.
C6_SolverReachability ==
    IKDone =>
        /\ call.raises <=> (IKDist2 > IKOuter2 \/ IKDist2 < IKInner2)
        /\ call.raises => call.ret = None
        /\ ~call.raises =>
               /\ Len(call.ret) = 2
               /\ Len(call.ret[1]) = 2 /\ Len(call.ret[2]) = 2
               /\ call.ret[1][2] <= 0
               /\ call.ret[2][2] = -call.ret[1][2]

\* C6 witness: a target exactly at full stretch, off the axes, was solved
C6_Witness ==
    /\ IKDone /\ ~call.raises
    /\ IKDist2 = IKOuter2
    /\ call.x # 0 /\ call.y # 0

SelectDone == call # None /\ call.fn = "ScaraImage.find_target" /\ call.done

\* the indices of the qualifying contours of the call
Qualifying == { i \in 1..Len(call.contours) : Qualifies(call.contours[i]) }

\* C10: the target is a qualifying contour whose enclosed area no qualifying
\* contour exceeds, and the first in the list among those of that area; there
\* is no target exactly when no contour qualifies.
C10_SelectsGreatestArea ==
    SelectDone =>
        /\ call.target = 0 <=> Qualifying = { }
        /\ call.target # 0 =>
               /\ call.target \in Qualifying
               /\ \A j \in Qualifying :
                      \/ call.contours[j].m00 < call.contours[call.target].m00
                      \/ /\ call.contours[j].m00 = call.contours[call.target].m00
                         /\ call.target <= j

\* ------------------------------------------------------------------------
\* Properties of the perception pipeline as the program calls it
\* ------------------------------------------------------------------------

\* C11: the observation a perception call hands to the tracking loop is
\* absent or a pair of finite numbers: a centroid whose perspective
\* denominator is zero gives (None, None), never inf or nan.
C11_ZeroDenominatorIsAbsent ==
    (InCycle /\ x # None) => (Finite(Val(x)) /\ Finite(Val(y)))

\* ------------------------------------------------------------------------
\* Properties of cancellation and of the loop's record of its last command
\* ------------------------------------------------------------------------

\* a set_angle call of this cycle moved the joint `name`
Moved(name) ==
    \E i \in 1..Len(cmds) :
        cmds[i][1] = name /\ cmds[i][2] # None /\ cmds[i][3] = "ok"

\* C12: when the handler of KeyboardInterrupt is entered, the cycle that was
\* interrupted has moved both joints or neither, and if it has moved them,
\* angles0 is the pair they now hold: the interrupt is acted on at a cycle
\* boundary only.
C12_CancellationAtCycleBoundary ==
    pc = "depower_shoulder" =>
        /\ Moved("shoulder") <=> Moved("elbow")
        /\ Moved("shoulder") =>
               angles0 = << Val(servo.shoulder), Val(servo.elbow) >>

\* C14: between cycles, angles0 is the pair the joints hold, (x0, y0) is an
\* observation find_angles solves and angles0 is one of its solutions; while
\* no pair has been recorded, angles0 = [0, 0] and (x0, y0) = (0, 0).  So a
\* cycle whose find_angles or set_angle fails leaves them as they were.
C14_ControlStateConsistent ==
    pc = "sleep" =>
        IF angles0 = << 0, 0 >>
        THEN x0 = 0 /\ y0 = 0
        ELSE /\ servo.shoulder = Some(angles0[1])
             /\ servo.elbow = Some(angles0[2])
             /\ ~FindAnglesRaises(x0, y0, arm_lengths)
             /\ angles0 \in { find_angles(x0, y0, arm_lengths)[1],
                               find_angles(x0, y0, arm_lengths)[2] }

\* ------------------------------------------------------------------------
\* Properties of the fallback to the second solution
\* ------------------------------------------------------------------------

\* the servo refused a set_angle call of this cycle and the except clause
\* is running: find_angles had returned, `angles` is this cycle's
FallingBack ==
    /\ InBareExcept
    /\ \E i \in 1..Len(cmds) : cmds[i][3] = "ValueError"

\* this step is a set_angle call
SetAngleCalled == Len(cmds') = Len(cmds) + 1

\* the set_angle call this step made
LastCall == cmds'[Len(cmds')]

\* C15: when the servo refuses the shoulder or the elbow angle of the
\* preferred solution with ValueError, the loop goes on to the other solution
\* of the same target: it commands that solution's shoulder angle, then its
\* elbow angle, then records it in angles0 and ends the cycle without an
\* error message; a refusal of either call ends the cycle with the error
\* message printed and angles0 as it was.  (A ctrl-C or device error that
\* takes the place of a statement is not a step of this rule.)
C15_DefensiveFallback ==
    [][/\ (pc \in { "shoulder1", "elbow1" } /\ SetAngleCalled
            /\ LastCall[3] = "ValueError") =>
              /\ pc' = "shoulder2"
              /\ LastCall[2] \in { Some(angles[1][1]), Some(angles[1][2]) }
              /\ UNCHANGED << x, y, angles, angles0 >>
       /\ (FallingBack /\ pc = "shoulder2" /\ SetAngleCalled) =>
              /\ { angles[1], angles[2] }
                   = { find_angles(Val(x), Val(y), arm_lengths)[1],
                       find_angles(Val(x), Val(y), arm_lengths)[2] }
              /\ LastCall[1] = "shoulder"
              /\ LastCall[2] = Some(angles[2][1])
              /\ IF LastCall[3] = "ok"
                 THEN /\ pc' = "elbow2"
                      /\ servo'.shoulder = Some(angles[2][1])
                      /\ ~printed'
                 ELSE /\ pc' = "sleep"
                      /\ printed'
                      /\ UNCHANGED << angles0, servo >>
       /\ (FallingBack /\ pc = "elbow2" /\ SetAngleCalled) =>
              /\ LastCall[1] = "elbow"
              /\ LastCall[2] = Some(angles[2][2])
              /\ IF LastCall[3] = "ok"
                 THEN /\ pc' = "commit2"
                      /\ servo'.elbow = Some(angles[2][2])
                      /\ ~printed'
                 ELSE /\ pc' = "sleep"
                      /\ printed'
                      /\ UNCHANGED << angles0, servo >>
       /\ (FallingBack /\ pc = "commit2" /\ ~printed') =>
              /\ pc' = "sleep"
              /\ angles0' = angles[2]
              /\ servo = [shoulder |-> Some(angles[2][1]),
                          elbow |-> Some(angles[2][2])]
      ]_vars

\* C15 witness: the preferred solution was refused, the other one was
\* commanded to both joints and recorded, and no error message was printed
C15_Witness ==
    /\ pc = "sleep" /\ ~printed
    /\ Len(cmds) >= 3
    /\ \E i \in 1..Len(cmds) : cmds[i][3] = "ValueError"
    /\ angles0 = angles[2]
    /\ servo = [shoulder |-> Some(angles0[1]), elbow |-> Some(angles0[2])]

\* ------------------------------------------------------------------------
\* Properties of the qualification of contours
\* ------------------------------------------------------------------------

\* the indices of the contours of the call whose bounding box is at least
\* `min_width` wide and within 3 px of square
Kept(min_width) ==
    { i \in 1..Len(call.contours) :
        /\ call.contours[i].w - call.contours[i].h <= 3
        /\ call.contours[i].h - call.contours[i].w <= 3
        /\ call.contours[i].w >= min_width }

\* the call took as target the first contour of `kept` in the order of
\* decreasing array.size (the earlier in the list among equals), or none
\* when `kept` is empty: the contours of `kept`, and no others, were the
\* candidates
TargetIsFirstOf(kept) ==
    /\ call.target = 0 <=> kept = { }
    /\ call.target # 0 =>
           /\ call.target \in kept
           /\ \A j \in kept :
                  \/ call.contours[j].size < call.contours[call.target].size
                  \/ /\ call.contours[j].size
                          = call.contours[call.target].size
                     /\ call.target <= j

\* C16: a contour is a candidate for the target if and only if
\* |w - h| <= 3 and w >= 19.
C16_QualifiesFromWidth19 == SelectDone => TargetIsFirstOf(Kept(19))

\* C16 as amended: a contour is a candidate for the target if and only if
\* |w - h| <= 3 and w > 19, that is w >= 20; a 30x30 blob is one and a 5x40
\* blob is not.
C16_QualifiesAboveWidth19 == SelectDone => TargetIsFirstOf(Kept(20))

\* C16 witness: a 19x19 contour of more points than the target was passed
\* over
C16_Witness ==
    /\ SelectDone /\ call.target # 0
    /\ \E i \in 1..Len(call.contours) :
           /\ call.contours[i].w = 19 /\ call.contours[i].h = 19
           /\ call.contours[i].size > call.contours[call.target].size

\* ------------------------------------------------------------------------
\* Properties of the warp matrix held by the main program
\* ------------------------------------------------------------------------

\* a complete 3x3 matrix (None has no rows)
IsMatrix(m) == Len(m) = 3 /\ \A i \in 1..3 : Len(m[i]) = 3

\* C17: whatever menu operations were chosen, calibration attempts included,
\* the main program goes on holding a complete 3x3 warp_matrix: an attempt
\* neither leaves None or a partial value in it nor ends the program with
\* the TypeError of the call.
C17_WarpMatrixAlwaysComplete ==
    IsMatrix(warp_matrix) /\ exc # "TypeError"

====
